---- MODULE Spec2Model ----
(***************************************************************************)
(* The two file tools of the portfolio front end, PdfMerge and JpgToPdf:   *)
(* the ordered item queue, the drag-reorder reference, the asynchronous    *)
(* batch run (mergePdfs / convertToPdf) and the object-URL handles that    *)
(* the components acquire and revoke.                                      *)
(*                                                                         *)
(* One React component instance is modelled per behaviour; `tool` says     *)
(* which one was mounted.  Every event handler runs to completion and the  *)
(* component re-renders before the next event, so a handler always reads   *)
(* the current state; an asynchronous run keeps the `items` array that its *)
(* closure captured when it was triggered and is resumed one awaited step  *)
(* at a time, interleaved with user events.                                *)
(***************************************************************************)
EXTENDS Integers, Sequences, FiniteSets

VARIABLES
  tool,           \* "merge" (PdfMerge) or "jpg" (JpgToPdf): the mounted component
  mounted,        \* FALSE once the component has been unmounted
  hasRandomUUID,  \* whether crypto.randomUUID exists (secure context)
  now,            \* the last value Date.now() returned (read only without randomUUID)
  created,        \* number of item ids generated so far (the next UUID)
  items,          \* useState([]): the queue
  isMerging,      \* PdfMerge useState(false)
  isConverting,   \* JpgToPdf useState(false)
  mergedPdfUrl,   \* PdfMerge useState(null): handle of the merged document
  pdfUrl,         \* JpgToPdf useState(null): handle of the converted document
  errorMsg,       \* useState(""): translation key of the message shown
  progress,       \* PdfMerge useState({current: 0, total: 0})
  dragIndexRef,   \* useRef(null).current
  dragging,       \* the browser's drag session carries an item of the list
  urls,           \* the browser's object-URL table: handle h is urls[h]
  runs            \* the asynchronous runs in flight (closures of mergePdfs / convertToPdf)

vars == <<tool, mounted, hasRandomUUID, now, created, items, isMerging, isConverting,
          mergedPdfUrl, pdfUrl, errorMsg, progress, dragIndexRef, dragging, urls, runs>>

----------------------------------------------------------------------------
(* Bounds of the model *)

MaxBatch == 2      \* longest file list handed to addFiles
MaxCreated == 2    \* item ids generated in one behaviour of Spec
QueueCreated == 3  \* item ids generated in one behaviour of SpecQueue
MaxClock == 1      \* largest value of Date.now()
MaxUrls == 2       \* a run starts only while fewer output handles than this could exist
MaxRuns == 2       \* runs in flight at once (reached only by direct handler calls)
BulkLen == 14      \* length of the bulk file list that fills the queue in SpecCap
CapSpare == 2      \* SpecCap: ids generated beyond the bulk list
Window == 1        \* SpecCap: the user acts on the last Window positions of the list

(* Program constants *)

MAX_FILES == 15
Null == -1         \* null in dragIndexRef.current
NoUrl == 0         \* null in mergedPdfUrl / pdfUrl; handles are 1, 2, ...

Undefined == [undefined |-> TRUE]   \* the JavaScript value undefined as a queue entry

Min(a, b) == IF a < b THEN a ELSE b

----------------------------------------------------------------------------
(* Files the user can select or drop.  A name is base + "." + ext; pages is   *)
(* the number of pages of a PDF.  The bytes are not modelled: whether an     *)
(* awaited read or decode of a file rejects is decided when it is awaited.   *)

PdfA == [base |-> "A", ext |-> "pdf", type |-> "application/pdf", pages |-> 3]
\* no declared type and an upper-case suffix
PdfB == [base |-> "B", ext |-> "PDF", type |-> "", pages |-> 1]
\* a declared PDF type and a name that does not end in .pdf
PdfC == [base |-> "C", ext |-> "bin", type |-> "application/pdf", pages |-> 2]
Txt  == [base |-> "T", ext |-> "txt", type |-> "text/plain", pages |-> 0]
ImgX == [base |-> "X", ext |-> "jpg", type |-> "image/jpeg", pages |-> 1]
ImgY == [base |-> "Y", ext |-> "png", type |-> "image/png", pages |-> 1]
\* the non-standard type image/jpg
ImgZ == [base |-> "Z", ext |-> "jpg", type |-> "image/jpg", pages |-> 1]
Gif  == [base |-> "G", ext |-> "gif", type |-> "image/gif", pages |-> 1]

PdfFiles == {PdfA, PdfB, Txt}
ImgFiles == {ImgX, ImgY, Gif}

\* String.prototype.toLowerCase on the suffixes that occur
ToLowerCase(s) ==
  CASE s = "PDF" -> "pdf"
    [] OTHER -> s

PdfAcceptTypes == {"application/pdf"}
JpgAcceptTypes == {"image/jpeg", "image/jpg", "image/png"}

\* a filter that looks at the MIME type only
PdfValidByTypeOnly(f) == f.type \in PdfAcceptTypes

\* PdfMerge addFiles: acceptTypes.includes(f.type) || f.name.toLowerCase().endsWith(".pdf")
PdfValid(f) == f.type \in PdfAcceptTypes \/ ToLowerCase(f.ext) = "pdf"
\* incoming.filter(...) of PdfMerge addFiles
PdfFilter(incoming) == SelectSeq(incoming, PdfValid)

\* JpgToPdf addFiles: acceptTypes.includes(f.type)
JpgValid(f) == f.type \in JpgAcceptTypes
\* incoming.filter(...) of JpgToPdf addFiles
JpgFilter(incoming) == SelectSeq(incoming, JpgValid)

\* a slice that keeps the tail of the array instead of its head
SliceTail(s, n) ==
  LET m == Min(Len(s), IF n < 0 THEN 0 ELSE n) IN SubSeq(s, Len(s) - m + 1, Len(s))

\* Array.prototype.slice(0, n)
Slice0(s, n) == SubSeq(s, 1, Min(Len(s), IF n < 0 THEN 0 ELSE n))

SeqsUpTo(S, n) == UNION {[1..k -> S] : k \in 0..n}

----------------------------------------------------------------------------
(* Item ids: `${crypto.randomUUID?.() || Date.now()}-${file.name}` *)

\* the k-th id generated by one addFiles call (k = 1, 2, ...).  The template is
\* evaluated once per mapped file: without crypto.randomUUID the k-th evaluation
\* calls Date.now(), and ts[k] is what that call returns
NewId(k, f, ts) ==
  [tok  |-> IF hasRandomUUID THEN [kind |-> "uuid", n |-> created + k]
                             ELSE [kind |-> "ms", n |-> ts[k]],
   name |-> <<f.base, f.ext>>]

----------------------------------------------------------------------------
(* Object URLs: urls[h] = [blob, type, revoked]; revoked counts the calls of *)
(* URL.revokeObjectURL(h), saturating at 2.  The blob of a preview handle   *)
(* is the file's name, the blob of an output handle its page sequence, type *)
(* is the Blob's MIME type; the browser drops the blob when the handle is   *)
(* revoked.                                                                 *)

NoBlob == <<>>

\* URL.createObjectURL, for the blobs bs in order: returns the new table
CreateObjectURLs(u, bs) ==
  u \o [k \in 1..Len(bs) |-> [blob |-> bs[k].data, type |-> bs[k].type, revoked |-> 0]]

\* new Blob([bytes], { type: "application/pdf" }) and pdf.output("blob")
PdfBlob(pages) == [type |-> "application/pdf", data |-> pages]

\* URL.revokeObjectURL(h)
RevokeObjectURL(u, h) ==
  IF h \in 1..Len(u)
  THEN [u EXCEPT ![h] = [blob |-> NoBlob, type |-> u[h].type,
                         revoked |-> Min(2, u[h].revoked + 1)]]
  ELSE u

RECURSIVE RevokeAll(_, _)
\* forEach((it) => URL.revokeObjectURL(it.previewUrl))
RevokeAll(u, its) ==
  IF its = <<>> THEN u
  ELSE RevokeAll(RevokeObjectURL(u, Head(its).previewUrl), Tail(its))

\* an effect without its cleanup
UrlEffectNoCleanup(u, old, new) == u

\* useEffect(() => () => { if (url) URL.revokeObjectURL(url) }, [url]):
\* the cleanup runs with the old value when the rendered value changes
UrlEffect(u, old, new) ==
  IF old # NoUrl /\ old # new THEN RevokeObjectURL(u, old) ELSE u

----------------------------------------------------------------------------
(* Rendering *)

\* items.map((it, idx) => <div key={it.id} ...>) throws on an undefined entry
RendersList(list) == \A k \in 1..Len(list) : list[k] # Undefined

Renders == RendersList(items)

\* a handler can be called only while the component is mounted and its last render
\* succeeded
UIEnabled == mounted /\ Renders

\* what the unmount cleanup of JpgToPdf closes over: the values of the first render
FirstRenderItems == <<>>
FirstRenderPdfUrl == NoUrl

\* React removes the component: the cleanups of its effects run, each with the
\* values of the render that installed it.  The state cells of the instance die
\* with it: they are left at their initial values, so what remains is the URL
\* table and the closures of the runs in flight, whose later setState calls are
\* dropped.
Teardown ==
  /\ mounted' = FALSE
  /\ urls' = IF tool = "merge"
             THEN UrlEffect(urls, mergedPdfUrl, NoUrl)
             ELSE UrlEffect(UrlEffect(RevokeAll(urls, FirstRenderItems),
                                      FirstRenderPdfUrl, NoUrl),
                            pdfUrl, NoUrl)
  /\ items' = <<>>
  /\ isMerging' = FALSE
  /\ isConverting' = FALSE
  /\ mergedPdfUrl' = NoUrl
  /\ pdfUrl' = NoUrl
  /\ errorMsg' = ""
  /\ progress' = [current |-> 0, total |-> 0]
  /\ dragIndexRef' = Null
  /\ dragging' = FALSE
  /\ now' = 0
  /\ created' = 0
  /\ UNCHANGED <<tool, hasRandomUUID, runs>>

\* the user leaves the page
Unmount == mounted /\ Teardown

Init ==
  /\ tool \in {"merge", "jpg"}
  /\ mounted = TRUE
  /\ hasRandomUUID \in BOOLEAN
  /\ now = 0
  /\ created = 0
  /\ items = <<>>
  /\ isMerging = FALSE
  /\ isConverting = FALSE
  /\ mergedPdfUrl = NoUrl
  /\ pdfUrl = NoUrl
  /\ errorMsg = ""
  /\ progress = [current |-> 0, total |-> 0]
  /\ dragIndexRef = Null
  /\ dragging = FALSE
  /\ urls = <<>>
  /\ runs = <<>>

----------------------------------------------------------------------------
(* Queue operations shared by the two components *)

\* prev.filter((x) => x.id !== id)
FilterOutId(prev, id) ==
  LET Keep(x) == x.id # id IN SelectSeq(prev, Keep)

\* next.splice(start, 1) on a copy: <<array left, removed elements>>; a start at or
\* past the end removes nothing
SpliceOut(arr, start) ==
  IF start < Len(arr)
  THEN <<SubSeq(arr, 1, start) \o SubSeq(arr, start + 2, Len(arr)), <<arr[start + 1]>> >>
  ELSE <<arr, <<>> >>

\* next.splice(start, 0, x): start is clamped to the length
SpliceIn(arr, start, x) ==
  LET at == Min(start, Len(arr))
  IN  SubSeq(arr, 1, at) \o <<x>> \o SubSeq(arr, at + 1, Len(arr))

\* a move that corrects the drop index for the removed element
MoveItemShifted(prev, dragIndex, dropIndex) ==
  LET cut   == SpliceOut(prev, dragIndex)
      moved == IF cut[2] = <<>> THEN Undefined ELSE cut[2][1]
  IN  SpliceIn(cut[1], IF dragIndex < dropIndex THEN dropIndex - 1 ELSE dropIndex, moved)

\* the updater of onDrop: const [moved] = next.splice(dragIndex, 1);
\* next.splice(dropIndex, 0, moved); moved is undefined when nothing was removed
MoveItem(prev, dragIndex, dropIndex) ==
  LET cut   == SpliceOut(prev, dragIndex)
      moved == IF cut[2] = <<>> THEN Undefined ELSE cut[2][1]
  IN  SpliceIn(cut[1], dropIndex, moved)

\* onDragStart(index): called by the dragstart event of an item, which opens the
\* browser's drag session
onDragStart(index) ==
  /\ UIEnabled
  /\ dragIndexRef' = index
  /\ dragging' = TRUE
  /\ UNCHANGED <<tool, mounted, hasRandomUUID, now, created, items, isMerging, isConverting,
                 mergedPdfUrl, pdfUrl, errorMsg, progress, urls, runs>>

----------------------------------------------------------------------------
(* PdfMerge *)

\* toAdd.map((file) => ({id, file, sizeLabel})); the size label is display only
PdfNewItems(toAdd, ts) ==
  [k \in 1..Len(toAdd) |-> [id |-> NewId(k, toAdd[k], ts), file |-> toAdd[k]]]

\* a capacity test that is off by one
AvailableSlotsOffByOne(len) == MAX_FILES + 1 - len

\* const availableSlots = MAX_FILES - items.length
AvailableSlots(len) == MAX_FILES - len

\* how often one addFiles(fileList) call of PdfMerge calls Date.now(): once per
\* mapped file when crypto.randomUUID is missing, never when an early return comes
\* before the map
PdfMerge_clockCalls(fileList) ==
  LET availableSlots == AvailableSlots(Len(items)) IN
  IF hasRandomUUID \/ Len(fileList) = 0 \/ availableSlots <= 0
  THEN 0
  ELSE Len(Slice0(PdfFilter(fileList), availableSlots))

\* ts: what the successive Date.now() calls of this call return
PdfMerge_addFiles(fileList, ts) ==
  LET incoming       == fileList
      valid          == PdfFilter(incoming)
      availableSlots == AvailableSlots(Len(items))
      toAdd          == Slice0(valid, availableSlots)
  IN
  /\ UIEnabled
  /\ tool = "merge"
  /\ Len(ts) = PdfMerge_clockCalls(fileList)
  /\ mergedPdfUrl' = NoUrl
  /\ urls' = UrlEffect(urls, mergedPdfUrl, NoUrl)
  /\ IF Len(incoming) = 0
     THEN /\ errorMsg' = ""
          /\ UNCHANGED <<items, created, now>>
     ELSE IF availableSlots <= 0
     THEN /\ errorMsg' = "PdfMerge.maxFilesReached"
          /\ UNCHANGED <<items, created, now>>
     ELSE /\ created' = created + Len(toAdd)
          /\ now' = IF ts = <<>> THEN now ELSE ts[Len(ts)]
          /\ errorMsg' = IF Len(valid) > availableSlots THEN "PdfMerge.someFilesIgnored"
                         ELSE IF Len(valid) # Len(incoming) THEN "PdfMerge.invalidFileType"
                         ELSE ""
          /\ items' = items \o PdfNewItems(toAdd, ts)
  /\ UNCHANGED <<dragging, tool, mounted, hasRandomUUID, isMerging, isConverting,
                 pdfUrl, progress, dragIndexRef, runs>>

\* a removeItem that forgets setMergedPdfUrl(null)
PdfMerge_removeItemKeepsUrl(id) ==
  /\ UIEnabled
  /\ tool = "merge"
  /\ items' = FilterOutId(items, id)
  /\ UNCHANGED <<dragging, tool, mounted, hasRandomUUID, now, created, isMerging, isConverting,
                 mergedPdfUrl, pdfUrl, errorMsg, progress, dragIndexRef, urls, runs>>

PdfMerge_removeItem(id) ==
  /\ UIEnabled
  /\ tool = "merge"
  /\ mergedPdfUrl' = NoUrl
  /\ urls' = UrlEffect(urls, mergedPdfUrl, NoUrl)
  /\ items' = FilterOutId(items, id)
  /\ UNCHANGED <<dragging, tool, mounted, hasRandomUUID, now, created, isMerging, isConverting,
                 pdfUrl, errorMsg, progress, dragIndexRef, runs>>

PdfMerge_clearAll ==
  /\ UIEnabled
  /\ tool = "merge"
  /\ mergedPdfUrl' = NoUrl
  /\ urls' = UrlEffect(urls, mergedPdfUrl, NoUrl)
  /\ errorMsg' = ""
  /\ items' = <<>>
  /\ UNCHANGED <<dragging, tool, mounted, hasRandomUUID, now, created, isMerging, isConverting,
                 pdfUrl, progress, dragIndexRef, runs>>

\* an onDrop without the test dragIndex === dropIndex
PdfMerge_onDropAlwaysMoves(dropIndex) ==
  LET dragIndex == dragIndexRef
      next      == MoveItem(items, dragIndex, dropIndex)
  IN
  /\ UIEnabled
  /\ tool = "merge"
  /\ IF dragIndex = Null
     THEN /\ dragIndexRef' = Null
          /\ dragging' = FALSE
          /\ UNCHANGED <<items, mergedPdfUrl, urls, mounted, now, created, isMerging,
                         errorMsg, progress, isConverting, pdfUrl>>
     ELSE IF RendersList(next)
     THEN /\ dragIndexRef' = Null
          /\ dragging' = FALSE
          /\ mergedPdfUrl' = NoUrl
          /\ urls' = UrlEffect(urls, mergedPdfUrl, NoUrl)
          /\ items' = next
          /\ UNCHANGED <<mounted, now, created, isMerging, errorMsg, progress,
                         isConverting, pdfUrl>>
     ELSE Teardown
  /\ UNCHANGED <<tool, hasRandomUUID, runs>>

\* onDrop(dropIndex): called by the drop event on an item, which closes the drag
\* session
PdfMerge_onDrop(dropIndex) ==
  LET dragIndex == dragIndexRef
      next      == MoveItem(items, dragIndex, dropIndex)
  IN
  /\ UIEnabled
  /\ tool = "merge"
  /\ IF dragIndex = Null \/ dragIndex = dropIndex
     THEN /\ dragIndexRef' = Null
          /\ dragging' = FALSE
          /\ UNCHANGED <<items, mergedPdfUrl, urls, mounted, now, created, isMerging,
                         errorMsg, progress, isConverting, pdfUrl>>
     ELSE IF RendersList(next)
     THEN /\ dragIndexRef' = Null
          /\ dragging' = FALSE
          /\ mergedPdfUrl' = NoUrl
          /\ urls' = UrlEffect(urls, mergedPdfUrl, NoUrl)
          /\ items' = next
          /\ UNCHANGED <<mounted, now, created, isMerging, errorMsg, progress,
                         isConverting, pdfUrl>>
     ELSE \* the render of next throws and React unmounts the tree
          Teardown
  /\ UNCHANGED <<tool, hasRandomUUID, runs>>

----------------------------------------------------------------------------
(* PdfMerge: the batch run.  A run in flight is the closure of mergePdfs:    *)
(* the items array it captured, the loop index i and the pages added to      *)
(* outPdf so far.                                                            *)

\* srcPdf.getPageIndices() / copyPages / addPage: the pages of one source, in order
PagesOf(f) == [k \in 1..f.pages |-> <<f.base, k>>]

\* pages inserted at the front of the output instead of appended
AddPagesInFront(out, f) == PagesOf(f) \o out

\* outPdf after copiedPages.forEach((p) => outPdf.addPage(p))
AddPages(out, f) == out \o PagesOf(f)

RemoveAt(s, r) == SubSeq(s, 1, r - 1) \o SubSeq(s, r + 1, Len(s))

\* a merge button that stays enabled during a run
MergeButtonDisabledByCountOnly == Len(items) < 2

\* the disabled attribute of the merge button
MergeButtonDisabled == Len(items) < 2 \/ isMerging

\* mergePdfs without its check of the queue length
mergePdfsUnchecked ==
  /\ UIEnabled
  /\ tool = "merge"
  /\ mergedPdfUrl' = NoUrl
  /\ urls' = UrlEffect(urls, mergedPdfUrl, NoUrl)
  /\ errorMsg' = ""
  /\ isMerging' = TRUE
  /\ progress' = [current |-> 0, total |-> Len(items)]
  /\ runs' = Append(runs, [items |-> items, i |-> 0, out |-> <<>>])
  /\ UNCHANGED <<dragging, tool, mounted, hasRandomUUID, now, created, items, isConverting,
                 pdfUrl, dragIndexRef>>

\* mergePdfs up to its first await
mergePdfs ==
  /\ UIEnabled
  /\ tool = "merge"
  /\ mergedPdfUrl' = NoUrl
  /\ urls' = UrlEffect(urls, mergedPdfUrl, NoUrl)
  /\ IF Len(items) < 2
     THEN /\ errorMsg' = "PdfMerge.needAtLeastTwo"
          /\ UNCHANGED <<isMerging, progress, runs>>
     ELSE /\ errorMsg' = ""
          /\ isMerging' = TRUE
          /\ progress' = [current |-> 0, total |-> Len(items)]
          /\ runs' = Append(runs, [items |-> items, i |-> 0, out |-> <<>>])
  /\ UNCHANGED <<dragging, tool, mounted, hasRandomUUID, now, created, items, isConverting,
                 pdfUrl, dragIndexRef>>

\* items[i].file throws when items[i] is undefined
ItemThrows(run) == run.items[run.i + 1] = Undefined

\* a progress update that reports the items completed before this one
ProgressBehind(run) == [current |-> run.i, total |-> Len(run.items)]

\* setProgress({ current: i + 1, total: items.length })
ProgressAfter(run) == [current |-> run.i + 1, total |-> Len(run.items)]

\* one loop iteration of mergePdfs: read, load, copy the pages, setProgress
mergePdfs_item(r) ==
  LET run == runs[r] IN
  /\ tool = "merge"
  /\ run.i < Len(run.items)
  /\ ~ItemThrows(run)
  /\ runs' = [runs EXCEPT ![r] = [items |-> run.items, i |-> run.i + 1,
                                  out |-> AddPages(run.out, run.items[run.i + 1].file)]]
  /\ progress' = IF mounted THEN ProgressAfter(run) ELSE progress
  /\ UNCHANGED <<dragging, tool, mounted, hasRandomUUID, now, created, items, isMerging, isConverting,
                 mergedPdfUrl, pdfUrl, errorMsg, dragIndexRef, urls>>

\* a catch without the finally block: the busy flag stays set
mergePdfs_catchKeepsBusy(r) ==
  /\ tool = "merge"
  /\ runs' = RemoveAt(runs, r)
  /\ errorMsg' = IF mounted THEN "PdfMerge.mergeFailed" ELSE errorMsg
  /\ UNCHANGED <<dragging, tool, mounted, hasRandomUUID, now, created, items, isMerging,
                 isConverting, mergedPdfUrl, pdfUrl, progress, dragIndexRef, urls>>

\* catch + finally of mergePdfs: the await the run is suspended at (arrayBuffer,
\* PDFDocument.load, copyPages or outPdf.save) rejects, or items[i].file throws
mergePdfs_catch(r) ==
  /\ tool = "merge"
  /\ runs' = RemoveAt(runs, r)
  /\ errorMsg' = IF mounted THEN "PdfMerge.mergeFailed" ELSE errorMsg
  /\ isMerging' = IF mounted THEN FALSE ELSE isMerging
  /\ UNCHANGED <<dragging, tool, mounted, hasRandomUUID, now, created, items, isConverting,
                 mergedPdfUrl, pdfUrl, progress, dragIndexRef, urls>>

\* outPdf.save() resolved: new Blob, URL.createObjectURL, setMergedPdfUrl, finally
mergePdfs_save(r) ==
  LET run == runs[r]
      url == Len(urls) + 1
      acquired == CreateObjectURLs(urls, <<PdfBlob(run.out)>>)
  IN
  /\ tool = "merge"
  /\ run.i = Len(run.items)
  /\ runs' = RemoveAt(runs, r)
  /\ IF mounted
     THEN /\ mergedPdfUrl' = url
          /\ urls' = UrlEffect(acquired, mergedPdfUrl, url)
          /\ isMerging' = FALSE
     ELSE /\ urls' = acquired
          /\ UNCHANGED <<mergedPdfUrl, isMerging>>
  /\ UNCHANGED <<dragging, tool, mounted, hasRandomUUID, now, created, items, isConverting,
                 pdfUrl, errorMsg, progress, dragIndexRef>>

----------------------------------------------------------------------------
(* JpgToPdf *)

\* valid.map((file) => ({id, file, previewUrl: URL.createObjectURL(file)})):
\* the k-th new item owns handle Len(urls) + k
JpgNewItems(valid, ts) ==
  [k \in 1..Len(valid) |->
     [id |-> NewId(k, valid[k], ts), file |-> valid[k], previewUrl |-> Len(urls) + k]]

\* the blobs behind the preview handles: the files themselves
PreviewBlobs(valid) ==
  [k \in 1..Len(valid) |-> [type |-> valid[k].type, data |-> <<valid[k].base, valid[k].ext>>]]

\* how often one addFiles(fileList) call of JpgToPdf calls Date.now()
JpgToPdf_clockCalls(fileList) ==
  IF hasRandomUUID THEN 0 ELSE Len(JpgFilter(fileList))

\* ts: what the successive Date.now() calls of this call return
JpgToPdf_addFiles(fileList, ts) ==
  LET incoming == fileList
      valid    == JpgFilter(incoming)
  IN
  /\ UIEnabled
  /\ tool = "jpg"
  /\ Len(ts) = JpgToPdf_clockCalls(fileList)
  /\ pdfUrl' = NoUrl
  /\ IF Len(incoming) > 0 /\ Len(valid) = 0
     THEN /\ errorMsg' = "JpgToPdf.invalidFileType"
          /\ urls' = UrlEffect(urls, pdfUrl, NoUrl)
          /\ UNCHANGED <<items, created, now>>
     ELSE /\ created' = created + Len(valid)
          /\ now' = IF ts = <<>> THEN now ELSE ts[Len(ts)]
          /\ errorMsg' = ""
          /\ urls' = UrlEffect(CreateObjectURLs(urls, PreviewBlobs(valid)), pdfUrl, NoUrl)
          /\ items' = items \o JpgNewItems(valid, ts)
  /\ UNCHANGED <<dragging, tool, mounted, hasRandomUUID, isMerging, isConverting,
                 mergedPdfUrl, progress, dragIndexRef, runs>>

\* prev.find((x) => x.id === id): the first match, as a sequence of at most one item
FindById(prev, id) ==
  LET hits == {k \in 1..Len(prev) : prev[k].id = id}
  IN  IF hits = {} THEN <<>>
      ELSE <<prev[CHOOSE k \in hits : \A j \in hits : k <= j]>>

JpgToPdf_removeItem(id) ==
  /\ UIEnabled
  /\ tool = "jpg"
  /\ pdfUrl' = NoUrl
  /\ urls' = UrlEffect(RevokeAll(urls, FindById(items, id)), pdfUrl, NoUrl)
  /\ items' = FilterOutId(items, id)
  /\ UNCHANGED <<dragging, tool, mounted, hasRandomUUID, now, created, isMerging, isConverting,
                 mergedPdfUrl, errorMsg, progress, dragIndexRef, runs>>

JpgToPdf_clearAll ==
  /\ UIEnabled
  /\ tool = "jpg"
  /\ pdfUrl' = NoUrl
  /\ errorMsg' = ""
  /\ urls' = UrlEffect(RevokeAll(urls, items), pdfUrl, NoUrl)
  /\ items' = <<>>
  /\ UNCHANGED <<dragging, tool, mounted, hasRandomUUID, now, created, isMerging, isConverting,
                 mergedPdfUrl, progress, dragIndexRef, runs>>

JpgToPdf_onDrop(dropIndex) ==
  LET dragIndex == dragIndexRef
      next      == MoveItem(items, dragIndex, dropIndex)
  IN
  /\ UIEnabled
  /\ tool = "jpg"
  /\ IF dragIndex = Null \/ dragIndex = dropIndex
     THEN /\ dragIndexRef' = Null
          /\ dragging' = FALSE
          /\ UNCHANGED <<items, pdfUrl, urls, mounted, now, created, isConverting,
                         errorMsg, progress, isMerging, mergedPdfUrl>>
     ELSE IF RendersList(next)
     THEN /\ dragIndexRef' = Null
          /\ dragging' = FALSE
          /\ pdfUrl' = NoUrl
          /\ urls' = UrlEffect(urls, pdfUrl, NoUrl)
          /\ items' = next
          /\ UNCHANGED <<mounted, now, created, isConverting, errorMsg, progress,
                         isMerging, mergedPdfUrl>>
     ELSE \* the render of next throws and React unmounts the tree
          Teardown
  /\ UNCHANGED <<tool, hasRandomUUID, runs>>

\* the disabled attribute of the convert button
ConvertButtonDisabled == Len(items) = 0 \/ isConverting

\* convertToPdf up to its first await
convertToPdf ==
  /\ UIEnabled
  /\ tool = "jpg"
  /\ pdfUrl' = NoUrl
  /\ urls' = UrlEffect(urls, pdfUrl, NoUrl)
  /\ IF Len(items) = 0
     THEN /\ errorMsg' = "JpgToPdf.noImagesError"
          /\ UNCHANGED <<isConverting, runs>>
     ELSE /\ errorMsg' = ""
          /\ isConverting' = TRUE
          /\ runs' = Append(runs, [items |-> items, i |-> 0, out |-> <<>>])
  /\ UNCHANGED <<dragging, tool, mounted, hasRandomUUID, now, created, items, isMerging,
                 mergedPdfUrl, progress, dragIndexRef>>

\* pdf after new jsPDF(...) or pdf.addPage(...), and pdf.addImage: one page per image
AddImagePage(out, f) == Append(out, <<f.base, 1>>)

\* one loop iteration of convertToPdf that is not the last one
convertToPdf_item(r) ==
  LET run == runs[r] IN
  /\ tool = "jpg"
  /\ run.i + 1 < Len(run.items)
  /\ ~ItemThrows(run)
  /\ runs' = [runs EXCEPT ![r] = [items |-> run.items, i |-> run.i + 1,
                                  out |-> AddImagePage(run.out, run.items[run.i + 1].file)]]
  /\ UNCHANGED <<dragging, tool, mounted, hasRandomUUID, now, created, items, isMerging, isConverting,
                 mergedPdfUrl, pdfUrl, errorMsg, progress, dragIndexRef, urls>>

\* catch + finally of convertToPdf: the await the run is suspended at
\* (readFileAsDataUrl or loadImage) rejects, or items[i].file throws
convertToPdf_catch(r) ==
  /\ tool = "jpg"
  /\ runs' = RemoveAt(runs, r)
  /\ errorMsg' = IF mounted THEN "JpgToPdf.convertFailed" ELSE errorMsg
  /\ isConverting' = IF mounted THEN FALSE ELSE isConverting
  /\ UNCHANGED <<dragging, tool, mounted, hasRandomUUID, now, created, items, isMerging,
                 mergedPdfUrl, pdfUrl, progress, dragIndexRef, urls>>

\* the last loop iteration, then pdf.output("blob"), URL.createObjectURL, setPdfUrl,
\* finally: no await separates them
convertToPdf_output(r) ==
  LET run == runs[r]
      url == Len(urls) + 1
      out == AddImagePage(run.out, run.items[run.i + 1].file)
      acquired == CreateObjectURLs(urls, <<PdfBlob(out)>>)
  IN
  /\ tool = "jpg"
  /\ run.i + 1 = Len(run.items)
  /\ ~ItemThrows(run)
  /\ runs' = RemoveAt(runs, r)
  /\ IF mounted
     THEN /\ pdfUrl' = url
          /\ urls' = UrlEffect(acquired, pdfUrl, url)
          /\ isConverting' = FALSE
     ELSE /\ urls' = acquired
          /\ UNCHANGED <<pdfUrl, isConverting>>
  /\ UNCHANGED <<dragging, tool, mounted, hasRandomUUID, now, created, items, isMerging,
                 mergedPdfUrl, errorMsg, progress, dragIndexRef>>

----------------------------------------------------------------------------
(* The user interface: which handler an event can reach, given the disabled  *)
(* attributes of the rendered controls.  B is the set of file lists the user *)
(* may hand over, cap bounds the ids generated, and the user acts on the     *)
(* last K positions of the rendered list.                                    *)

\* the indices idx of items.map((it, idx) => ...) the user acts on
Rendered(K) == {k \in 0..(Len(items) - 1) : k >= Len(items) - K}

\* what n successive Date.now() calls can return when the last call returned lo:
\* each call returns the value of the call before it or the next one (the calls
\* are less than a clock tick apart)
RECURSIVE MonotoneReads(_, _)
MonotoneReads(n, lo) ==
  IF n = 0 THEN {<<>>}
  ELSE UNION {{<<t>> \o s : s \in MonotoneReads(n - 1, t)} :
                t \in {u \in {lo, lo + 1} : u <= MaxClock}}

\* what the n Date.now() calls of one addFiles call can return
ClockReads(n) == MonotoneReads(n, now)


\* <input type="file" onChange> and the drop zone's onDrop: never disabled
PdfMerge_onFileChange(B, cap) ==
  \E fileList \in B :
    /\ created + Len(fileList) <= cap
    /\ \E ts \in ClockReads(PdfMerge_clockCalls(fileList)) : PdfMerge_addFiles(fileList, ts)

JpgToPdf_onFileChange(B, cap) ==
  \E fileList \in B :
    /\ created + Len(fileList) <= cap
    /\ \E ts \in ClockReads(JpgToPdf_clockCalls(fileList)) : JpgToPdf_addFiles(fileList, ts)

\* the remove button of an item: disabled={isMerging}
PdfMerge_clickRemove(K) ==
  \E k \in Rendered(K) : ~isMerging /\ PdfMerge_removeItem(items[k + 1].id)

\* disabled={isConverting}
JpgToPdf_clickRemove(K) ==
  \E k \in Rendered(K) : ~isConverting /\ JpgToPdf_removeItem(items[k + 1].id)

\* the clear button: disabled={items.length === 0 || isMerging}
PdfMerge_clickClearAll == ~(Len(items) = 0 \/ isMerging) /\ PdfMerge_clearAll

JpgToPdf_clickClearAll == ~(Len(items) = 0 \/ isConverting) /\ JpgToPdf_clearAll

\* a draggable item: onDragStart={() => onDragStart(idx)}
DragStartItem(K) == \E k \in Rendered(K) : onDragStart(k)

\* onDrop={() => onDrop(idx)}: any drop on an item, also of a file dragged in
PdfMerge_dropOnItem(K) == \E k \in Rendered(K) : PdfMerge_onDrop(k)

JpgToPdf_dropOnItem(K) == \E k \in Rendered(K) : JpgToPdf_onDrop(k)

\* the primary buttons
PdfMerge_clickMerge ==
  ~MergeButtonDisabled /\ Len(urls) < MaxUrls /\ Len(runs) < MaxRuns /\ mergePdfs

JpgToPdf_clickConvert ==
  ~ConvertButtonDisabled /\ Len(urls) < MaxUrls + Len(items) /\ Len(runs) < MaxRuns
  /\ convertToPdf

----------------------------------------------------------------------------
(* Spec: the whole user interface on short queues: every file list of at     *)
(* most MaxBatch files, every rendered position.                             *)

Batches == SeqsUpTo(IF tool = "merge" THEN PdfFiles ELSE ImgFiles, MaxBatch)

MergeAdd == PdfMerge_onFileChange(Batches, MaxCreated)
MergeRemove == PdfMerge_clickRemove(MAX_FILES)
MergeClear == PdfMerge_clickClearAll
MergeDrop == PdfMerge_dropOnItem(MAX_FILES)
MergeClick == PdfMerge_clickMerge
MergeItem == \E r \in 1..Len(runs) : mergePdfs_item(r)
MergeCatch == \E r \in 1..Len(runs) : mergePdfs_catch(r)
MergeSave == \E r \in 1..Len(runs) : mergePdfs_save(r)
JpgAdd == JpgToPdf_onFileChange(Batches, MaxCreated)
JpgRemove == JpgToPdf_clickRemove(MAX_FILES)
JpgClear == JpgToPdf_clickClearAll
JpgDrop == JpgToPdf_dropOnItem(MAX_FILES)
JpgClick == JpgToPdf_clickConvert
JpgItem == \E r \in 1..Len(runs) : convertToPdf_item(r)
JpgCatch == \E r \in 1..Len(runs) : convertToPdf_catch(r)
JpgOutput == \E r \in 1..Len(runs) : convertToPdf_output(r)
DragStart == DragStartItem(MAX_FILES)

Next ==
  \/ MergeAdd
  \/ MergeRemove
  \/ MergeClear
  \/ MergeDrop
  \/ MergeClick
  \/ MergeItem
  \/ MergeCatch
  \/ MergeSave
  \/ JpgAdd
  \/ JpgRemove
  \/ JpgClear
  \/ JpgDrop
  \/ JpgClick
  \/ JpgItem
  \/ JpgCatch
  \/ JpgOutput
  \/ DragStart
  \/ Unmount

Spec == Init /\ [][Next]_vars

----------------------------------------------------------------------------
(* SpecQueue: the queue operations alone, called in any order on queues of  *)
(* up to QueueCreated items; no run is ever triggered.  removeItem is also   *)
(* called with ids that are not in the queue.                                *)

\* the id of every queued item, and an id that no item ever had (a UUID is never 0)
AnyIds ==
  (IF Renders THEN {items[k].id : k \in 1..Len(items)} ELSE {})
    \cup {[tok |-> [kind |-> "uuid", n |-> 0], name |-> <<"none", "pdf">>]}

QueueMergeAdd == PdfMerge_onFileChange(Batches, QueueCreated)
QueueMergeRemove == \E id \in AnyIds : PdfMerge_removeItem(id)
QueueJpgAdd == JpgToPdf_onFileChange(Batches, QueueCreated)
QueueJpgRemove == \E id \in AnyIds : JpgToPdf_removeItem(id)

NextQueue ==
  \/ QueueMergeAdd
  \/ QueueMergeRemove
  \/ PdfMerge_clearAll
  \/ MergeDrop
  \/ QueueJpgAdd
  \/ QueueJpgRemove
  \/ JpgToPdf_clearAll
  \/ JpgDrop
  \/ DragStart
  \/ Unmount

SpecQueue == Init /\ [][NextQueue]_vars

----------------------------------------------------------------------------
(* SpecCap: the queue around the merge tool's capacity.  The user first      *)
(* hands over one bulk list of BulkLen files, then short lists, and acts on  *)
(* the last Window positions of the rendered list.  No run is triggered.     *)
(* The page is served from a secure context, where crypto.randomUUID exists  *)
(* and makes the id of every queued file its own, so that a removal takes    *)
(* one item out of the full queue.                                           *)

InitCap == Init /\ hasRandomUUID

BulkList == [k \in 1..BulkLen |-> IF tool = "merge" THEN PdfA ELSE ImgX]

\* the short lists: valid files alone, an invalid file alone, and more valid files
\* than one or two free slots take, with and without an invalid file among them
CapLists ==
  IF tool = "merge"
  THEN {<<PdfB>>, <<Txt>>, <<PdfB, PdfA>>, <<Txt, PdfB, PdfC>>, <<PdfB, PdfA, PdfB>>}
  ELSE {<<ImgY>>, <<Gif>>, <<Gif, ImgY, ImgZ>>}

\* the bulk list comes first
CapBatches == IF created = 0 THEN {BulkList} ELSE CapLists

CapMergeAdd ==
  \E fileList \in CapBatches :
    \E ts \in ClockReads(PdfMerge_clockCalls(fileList)) :
      PdfMerge_addFiles(fileList, ts) /\ created' <= BulkLen + CapSpare
CapMergeRemove == PdfMerge_clickRemove(Window)
CapJpgAdd ==
  \E fileList \in CapBatches :
    \E ts \in ClockReads(JpgToPdf_clockCalls(fileList)) :
      JpgToPdf_addFiles(fileList, ts) /\ created' <= BulkLen + CapSpare
CapJpgRemove == JpgToPdf_clickRemove(Window)
CapMergeDrop == PdfMerge_dropOnItem(Window)
CapDragStart == DragStartItem(Window)

NextCap ==
  \/ CapMergeAdd
  \/ CapMergeRemove
  \/ CapJpgAdd
  \/ CapJpgRemove
  \/ MergeClear
  \/ CapMergeDrop
  \/ CapDragStart
  \/ Unmount

SpecCap == InitCap /\ [][NextCap]_vars

----------------------------------------------------------------------------
(* SpecDirect: as Spec, but mergePdfs and convertToPdf are also called when *)
(* the queue is too short for the button to be enabled.                     *)

DirectMerge == ~isMerging /\ Len(urls) < MaxUrls /\ Len(runs) < MaxRuns /\ mergePdfs

DirectConvert ==
  ~isConverting /\ Len(urls) < MaxUrls + Len(items) /\ Len(runs) < MaxRuns /\ convertToPdf

NextDirect ==
  \/ MergeAdd
  \/ MergeRemove
  \/ MergeClear
  \/ MergeDrop
  \/ DirectMerge
  \/ MergeItem
  \/ MergeCatch
  \/ MergeSave
  \/ JpgAdd
  \/ JpgRemove
  \/ JpgClear
  \/ JpgDrop
  \/ DirectConvert
  \/ JpgItem
  \/ JpgCatch
  \/ JpgOutput
  \/ DragStart
  \/ Unmount

SpecDirect == Init /\ [][NextDirect]_vars

----------------------------------------------------------------------------
(* The reference list model of the queue *)

RECURSIVE RefAdmit(_, _, _)
\* the files of a list that are admitted, in input order: the accepted ones, while
\* there is room
RefAdmit(files, accepted, room) ==
  IF files = <<>> \/ room <= 0 THEN <<>>
  ELSE IF Head(files) \in accepted
       THEN <<Head(files)>> \o RefAdmit(Tail(files), accepted, room - 1)
       ELSE RefAdmit(Tail(files), accepted, room)

\* the reference list after an admission: the old list, then one item per admitted file
RefAppended(old, new, admitted) ==
  /\ Len(new) = Len(old) + Len(admitted)
  /\ \A k \in 1..Len(old) : new[k] = old[k]
  /\ \A k \in 1..Len(admitted) : new[Len(old) + k].file = admitted[k]

\* the reference list without the items that have this id, the others in their order
RefRemove(list, id) ==
  LET keep == {k \in 1..Len(list) : list[k].id # id}
      Rank(k) == Cardinality({j \in keep : j <= k})
  IN  [n \in 1..Cardinality(keep) |-> list[CHOOSE k \in keep : Rank(k) = n]]

\* the reference list with the item at index from (0-based) put at index to, the
\* others keeping their relative order
RefMove(list, from, to) ==
  [n \in 1..Len(list) |->
     LET k == n - 1 IN
     IF k = to THEN list[from + 1]
     ELSE IF from < to /\ k >= from /\ k < to THEN list[k + 2]
     ELSE IF to < from /\ k > to /\ k <= from THEN list[k]
     ELSE list[n]]

InRange(index) == index \in 0..(Len(items) - 1)

PdfAccepted == {PdfA, PdfB, PdfC}
ImgAccepted == {ImgX, ImgY, ImgZ}

\* C1: every addFiles, removeItem, clearAll and in-range reorder step of either tool
\* changes the queue exactly as the same operation changes the reference list:
\* admission appends the admitted files at the tail in input order, removeItem
\* deletes the items with that id (none when it is absent) and keeps the order of
\* the others, clearAll empties the list, and a drop moves the item at the drag
\* index to the drop index and keeps the relative order of the others.  (Only a
\* step that leaves the drag reference alone and does not shorten the queue can be
\* an addFiles step.)
C1_QueueStep ==
  /\ tool = "merge" /\ dragIndexRef' = dragIndexRef /\ Len(items') >= Len(items) =>
       \A b \in Batches : \A ts \in ClockReads(PdfMerge_clockCalls(b)) :
         PdfMerge_addFiles(b, ts) =>
           RefAppended(items, items', RefAdmit(b, PdfAccepted, MAX_FILES - Len(items)))
  /\ tool = "jpg" /\ dragIndexRef' = dragIndexRef /\ Len(items') >= Len(items) =>
       \A b \in Batches : \A ts \in ClockReads(JpgToPdf_clockCalls(b)) :
         JpgToPdf_addFiles(b, ts) =>
           RefAppended(items, items', RefAdmit(b, ImgAccepted, Len(b)))
  /\ \A id \in AnyIds :
       PdfMerge_removeItem(id) \/ JpgToPdf_removeItem(id) => items' = RefRemove(items, id)
  /\ PdfMerge_clearAll \/ JpgToPdf_clearAll => items' = <<>>
  /\ \A to \in 0..(Len(items) - 1) :
       InRange(dragIndexRef) /\ (PdfMerge_onDrop(to) \/ JpgToPdf_onDrop(to)) =>
         items' = RefMove(items, dragIndexRef, to)

C1_QueueRefinesReferenceList == [][C1_QueueStep]_vars

\* C1 witness: three items admitted in the order X, Y, Z (ids 1, 2, 3) stand in the
\* order Y, Z, X: the item at index 0 was dropped on index 2.
C1_Witness ==
  /\ Renders
  /\ hasRandomUUID
  /\ Len(items) = 3
  /\ items[1].id.tok.n = 2
  /\ items[2].id.tok.n = 3
  /\ items[3].id.tok.n = 1

----------------------------------------------------------------------------
(* The batch run *)

RECURSIVE RefPages(_)
\* the pages of the documents of a list, document after document in list order, each
\* document's pages in their own order
RefPages(list) ==
  IF list = <<>> THEN <<>>
  ELSE [k \in 1..Head(list).file.pages |-> <<Head(list).file.base, k>>]
         \o RefPages(Tail(list))

RECURSIVE RefPageCount(_)
RefPageCount(list) ==
  IF list = <<>> THEN 0 ELSE Head(list).file.pages + RefPageCount(Tail(list))

\* C2: a merge run captures the queue when it is triggered, and when it succeeds it
\* acquires one output handle whose document holds the pages of every captured
\* document, concatenated in queue order, each document's pages in their own
\* order; its page count is the sum of the inputs' page counts.
C2_MergeStep ==
  /\ mergePdfs /\ Len(items) >= 2 =>
       /\ Len(runs') = Len(runs) + 1
       /\ runs'[Len(runs')].items = items
  /\ \A r \in 1..Len(runs) :
       mergePdfs_save(r) =>
         /\ Len(urls') = Len(urls) + 1
         /\ urls'[Len(urls')].revoked = 0
         /\ urls'[Len(urls')].blob = RefPages(runs[r].items)
         /\ Len(urls'[Len(urls')].blob) = RefPageCount(runs[r].items)

C2_MergeConcatenatesInQueueOrder == [][C2_MergeStep]_vars

\* C2 witness: the queue [A (3 pages), B (1 page)] was merged and the published
\* document is A1, A2, A3, B1.
C2_Witness ==
  /\ mounted
  /\ Renders
  /\ Len(items) = 2
  /\ items[1].file = PdfA
  /\ items[2].file = PdfB
  /\ mergedPdfUrl # NoUrl
  /\ urls[mergedPdfUrl].blob = <<<<"A", 1>>, <<"A", 2>>, <<"A", 3>>, <<"B", 1>>>>

\* C3 (as claimed): when a run fails, no output handle is created or published, the
\* queue is the one the run was triggered on, the failure message is set and the
\* busy flag is cleared.
C3_FailedRunStep ==
  \A r \in 1..Len(runs) :
    mounted /\ (mergePdfs_catch(r) \/ convertToPdf_catch(r)) =>
      /\ Len(urls') = Len(urls)
      /\ mergedPdfUrl' = NoUrl
      /\ pdfUrl' = NoUrl
      /\ items' = runs[r].items
      /\ errorMsg' = (IF tool = "merge" THEN "PdfMerge.mergeFailed"
                      ELSE "JpgToPdf.convertFailed")
      /\ ~isMerging'
      /\ ~isConverting'

C3_FailedRunLeavesTriggerQueue == [][C3_FailedRunStep]_vars

\* C4 (as claimed): no handle is revoked twice, and once the component is unmounted
\* and no run is in flight, every handle that was acquired has been revoked.
C4_EveryHandleReleasedOnce ==
  /\ \A h \in 1..Len(urls) : urls[h].revoked <= 1
  /\ (~mounted /\ runs = <<>>) => \A h \in 1..Len(urls) : urls[h].revoked = 1

\* C5 (as claimed): a drop whose recorded source index is outside the queue leaves
\* the queue as it was.
C5_StaleDropStep ==
  \A k \in 0..(Len(items) - 1) :
    /\ dragIndexRef # Null
    /\ ~InRange(dragIndexRef)
    /\ (PdfMerge_onDrop(k) \/ JpgToPdf_onDrop(k))
    => items' = items

C5_StaleDropIsNoOp == [][C5_StaleDropStep]_vars

\* C6 (as claimed): while a run is in flight and the component stays mounted, no
\* step changes the queue.
C6_QueueFrozenDuringRun == [][(runs # <<>> /\ mounted /\ mounted') => items' = items]_vars

\* C7: at most one run is in flight, and while the component is mounted the busy
\* flag of the tool is set exactly while its run is in flight.
C7_AtMostOneRun ==
  /\ Len(runs) <= 1
  /\ mounted =>
       /\ isMerging <=> (tool = "merge" /\ runs # <<>>)
       /\ isConverting <=> (tool = "jpg" /\ runs # <<>>)

\* C7 witness: a merge run is in flight, one item done, and the flag is set.
C7_Witness ==
  /\ mounted
  /\ isMerging
  /\ Len(runs) = 1
  /\ runs[1].i = 1

\* C8: the merge queue never holds more than MAX_FILES entries.
C8_QueueWithinMaxFiles == tool = "merge" => Len(items) <= MAX_FILES

\* C8 witness: the merge queue is full and an admission was turned away.
C8_Witness ==
  /\ tool = "merge"
  /\ Len(items) = MAX_FILES
  /\ errorMsg = "PdfMerge.maxFilesReached"

\* C9: an admission of a non-empty list into the merge queue with s = MAX_FILES -
\* |queue| free slots: with s > 0 and more than s valid files, exactly the first s
\* valid files are appended in input order, the queue then holds MAX_FILES and
\* "some files ignored" is reported; with the queue already at MAX_FILES nothing is
\* admitted, the queue is unchanged and "maximum reached" is reported.
C9_AdmissionStep ==
  \A b \in CapBatches : \A ts \in ClockReads(PdfMerge_clockCalls(b)) :
    PdfMerge_addFiles(b, ts) /\ Len(b) > 0 =>
      LET s     == MAX_FILES - Len(items)
          valid == RefAdmit(b, PdfAccepted, Len(b))
      IN  /\ (s > 0 /\ Len(valid) > s) =>
               /\ RefAppended(items, items', RefAdmit(b, PdfAccepted, s))
               /\ Len(items') = MAX_FILES
               /\ errorMsg' = "PdfMerge.someFilesIgnored"
          /\ Len(items) = MAX_FILES =>
               /\ items' = items
               /\ errorMsg' = "PdfMerge.maxFilesReached"

C9_AdmissionAtCapacity == [][C9_AdmissionStep]_vars

\* C9 witness: one slot was free, the list held two valid files, and the first of
\* them (B) was admitted as the last item.
C9_Witness ==
  /\ Renders
  /\ Len(items) = MAX_FILES
  /\ errorMsg = "PdfMerge.someFilesIgnored"
  /\ items[MAX_FILES].file = PdfB

\* C10: mergePdfs on fewer than 2 items, and convertToPdf on no item, set the
\* validation message and nothing else happens: the busy flag stays clear, the
\* progress counters are untouched, no run starts and no handle is acquired.
C10_RejectedTriggerStep ==
  /\ mergePdfs /\ Len(items) < 2 =>
       /\ errorMsg' = "PdfMerge.needAtLeastTwo"
       /\ ~isMerging'
       /\ progress' = progress
       /\ runs' = runs
       /\ Len(urls') = Len(urls)
       /\ mergedPdfUrl' = NoUrl
  /\ convertToPdf /\ Len(items) = 0 =>
       /\ errorMsg' = "JpgToPdf.noImagesError"
       /\ ~isConverting'
       /\ progress' = progress
       /\ runs' = runs
       /\ Len(urls') = Len(urls)
       /\ pdfUrl' = NoUrl

C10_TooFewItemsRejected == [][C10_RejectedTriggerStep]_vars

\* C10 witness: a merge was triggered on too short a queue and turned away.
C10_Witness ==
  /\ errorMsg = "PdfMerge.needAtLeastTwo"
  /\ ~isMerging
  /\ runs = <<>>
  /\ Len(items) < 2

----------------------------------------------------------------------------
(* Progress of a merge run *)

\* C11: while the merge tool is mounted, a run starts with progress 0 of the number
\* of queued items; each loop iteration processes the item of the run's queue that
\* follows the completed ones and raises current by exactly one, never beyond total;
\* no other step changes the counters while the run is in flight; and the run
\* publishes only when current equals total.
C11_ProgressStep ==
  tool = "merge" /\ mounted /\ mounted' =>
    /\ Len(runs') > Len(runs) =>
          /\ progress' = [current |-> 0, total |-> Len(items)]
          /\ runs'[Len(runs')].i = 0
          /\ runs'[Len(runs')].items = items
    /\ \A r \in 1..Len(runs) :
          mergePdfs_item(r) =>
            /\ progress.current = runs[r].i
            /\ runs'[r].out = runs[r].out \o PagesOf(runs[r].items[progress.current + 1].file)
            /\ progress'.current = progress.current + 1
            /\ progress'.total = progress.total
            /\ progress'.current <= progress'.total
    /\ \A r \in 1..Len(runs) :
          mergePdfs_save(r) =>
            progress.current = progress.total /\ progress.total = Len(runs[r].items)
    /\ (runs # <<>> /\ runs' = runs) => progress' = progress

C11_ProgressCountsCompletedItems == [][C11_ProgressStep]_vars

\* C11 witness: a run over two items has completed its first item, progress 1 of 2.
C11_Witness ==
  /\ tool = "merge"
  /\ mounted
  /\ Len(runs) = 1
  /\ runs[1].i = 1
  /\ progress = [current |-> 1, total |-> 2]

----------------------------------------------------------------------------
(* The output artifact *)

\* the output handle of the mounted tool
OutputUrl == IF tool = "merge" THEN mergedPdfUrl ELSE pdfUrl

\* C12: every step that changes the queue (an admission that adds items, a removal,
\* clearAll, a drop that moves an item) leaves the tool's output handle null.
C12_QueueChangeClearsOutput == [][items' # items => OutputUrl' = NoUrl]_vars

\* C12 witness: the merge tool published an output handle, which has been revoked,
\* and an item was then removed from the queue of two: one item is left, no run is
\* in flight and the output handle is null.
C12_Witness ==
  /\ tool = "merge"
  /\ mounted
  /\ runs = <<>>
  /\ Len(items) = 1
  /\ mergedPdfUrl = NoUrl
  /\ Len(urls) = 1
  /\ urls[1].revoked = 1

\* the output handles that were acquired and not yet revoked
LiveOutputs == {h \in 1..Len(urls) : urls[h].type = "application/pdf" /\ urls[h].revoked = 0}

\* C13: at most one output handle is live in any reachable state, and the handle a
\* mounted tool publishes is the only live one.
C13_AtMostOneLiveOutput ==
  /\ Cardinality(LiveOutputs) <= 1
  /\ mounted /\ OutputUrl # NoUrl => LiveOutputs = {OutputUrl}

\* C13 witness: the merge tool has published a second output handle and the first
\* one has been revoked.
C13_Witness ==
  /\ tool = "merge"
  /\ mergedPdfUrl = 2
  /\ urls[1].revoked = 1
  /\ urls[2].revoked = 0

----------------------------------------------------------------------------
(* SpecDrag: the drag sessions of the browser.  A drag of an item starts     *)
(* with dragstart on it and ends with a drop on an item or with DragEnd (the *)
(* drag is abandoned, or dropped outside the item list); the user clicks and *)
(* picks files only between drags.  A dragged item released over the drop    *)
(* zone fires the zone's onDrop, which calls addFiles with the empty file    *)
(* list of such a drag, before the session ends with DragEnd.  A drop on an  *)
(* item while no item is dragged is the drop of a file dragged in from       *)
(* outside.  No run is triggered.                                            *)

\* the dragend event: neither component listens to it, nor is there a handler for a
\* drop outside the item list that touches dragIndexRef
DragEnd ==
  /\ UIEnabled
  /\ dragging
  /\ dragging' = FALSE
  /\ UNCHANGED <<tool, mounted, hasRandomUUID, now, created, items, isMerging, isConverting,
                 mergedPdfUrl, pdfUrl, errorMsg, progress, dragIndexRef, urls, runs>>

DragBegin == ~dragging /\ DragStartItem(MAX_FILES)
\* the file input and the drop zone between drags, and the drop zone's onDrop
\* when a dragged item is released over it: e.dataTransfer.files is then empty
DragMergeAdd ==
  \/ ~dragging /\ PdfMerge_onFileChange(Batches, QueueCreated)
  \/ dragging /\ PdfMerge_addFiles(<<>>, <<>>)
DragJpgAdd ==
  \/ ~dragging /\ JpgToPdf_onFileChange(Batches, QueueCreated)
  \/ dragging /\ JpgToPdf_addFiles(<<>>, <<>>)
DragMergeRemove == ~dragging /\ PdfMerge_clickRemove(MAX_FILES)
DragJpgRemove == ~dragging /\ JpgToPdf_clickRemove(MAX_FILES)

NextDrag ==
  \/ DragMergeAdd
  \/ DragMergeRemove
  \/ MergeDrop
  \/ DragJpgAdd
  \/ DragJpgRemove
  \/ JpgDrop
  \/ DragBegin
  \/ DragEnd

SpecDrag == Init /\ [][NextDrag]_vars

\* C14 (as claimed): whenever a drag of an item ends, by a drop or otherwise, no
\* source index stays recorded; and a drop on an item while no item is dragged
\* leaves the queue as it was.
C14_DragStep ==
  /\ dragging /\ ~dragging' => dragIndexRef' = Null
  /\ \A k \in 0..(Len(items) - 1) :
       ~dragging /\ (PdfMerge_onDrop(k) \/ JpgToPdf_onDrop(k)) => items' = items

C14_ControllerReturnsToIdle == [][C14_DragStep]_vars

----------------------------------------------------------------------------
(* A drop of an item on itself *)

\* C19: a drop whose target index is the recorded source index changes nothing but
\* the drag state: the queue, the output handles, the URL table, the error message,
\* the progress counters and the busy flags stay, and no source index is recorded.
C19_SelfDropStep ==
  \A k \in 0..(Len(items) - 1) :
    dragIndexRef = k /\ (PdfMerge_onDrop(k) \/ JpgToPdf_onDrop(k)) =>
      /\ dragIndexRef' = Null
      /\ UNCHANGED <<items, mergedPdfUrl, pdfUrl, urls, errorMsg, progress,
                     isMerging, isConverting, runs, created>>

C19_SelfDropChangesOnlyDragState == [][C19_SelfDropStep]_vars

\* C19 witness: the merge tool shows a merged document and an error-free queue of
\* two, and the second item is being dragged: it can be dropped on itself.
C19_Witness ==
  /\ tool = "merge"
  /\ Renders
  /\ Len(items) = 2
  /\ mergedPdfUrl # NoUrl
  /\ dragIndexRef = 1
  /\ dragging

----------------------------------------------------------------------------
(* The artifact and the queue it shows *)

\* the document the image tool composes from a list: one page per image, in list order
RefImagePages(list) == [k \in 1..Len(list) |-> <<list[k].file.base, 1>>]

\* C15 (as claimed): while the tool is mounted, an output handle is published and no
\* run is in flight, the published document is the one composed from the current
\* queue in its current order.
C15_ArtifactShowsCurrentQueue ==
  mounted /\ Renders /\ runs = <<>> /\ OutputUrl # NoUrl =>
    urls[OutputUrl].blob = IF tool = "merge" THEN RefPages(items) ELSE RefImagePages(items)

----------------------------------------------------------------------------
(* SpecLive: the runs, with every awaited operation of a run settling: the   *)
(* continuation of a run in flight (its next iteration, its publication or   *)
(* its catch block) is eventually executed.  The user adds and removes       *)
(* files, clicks the trigger and leaves the page; there is no drag and drop. *)

NextLive ==
  \/ MergeAdd
  \/ MergeRemove
  \/ MergeClick
  \/ MergeItem
  \/ MergeCatch
  \/ MergeSave
  \/ JpgAdd
  \/ JpgRemove
  \/ JpgClick
  \/ JpgItem
  \/ JpgCatch
  \/ JpgOutput
  \/ Unmount

SpecLive ==
  /\ Init
  /\ [][NextLive]_vars
  /\ WF_vars(MergeItem \/ MergeCatch \/ MergeSave)
  /\ WF_vars(JpgItem \/ JpgCatch \/ JpgOutput)

\* the step of C16: while the tool is mounted, the step that ends a run, in success
\* or failure, clears the busy flag, so that the trigger button is enabled exactly
\* when the queue meets the tool's minimum; and a step that starts a run, first or
\* retried, starts it afresh on the current queue, with progress 0 of the queue's
\* length in the merge tool.
C16_RunStep ==
  /\ mounted /\ Len(runs') < Len(runs) =>
       /\ ~isMerging' /\ ~isConverting'
       /\ tool = "merge" => (MergeButtonDisabled' <=> Len(items') < 2)
       /\ tool = "jpg" => (ConvertButtonDisabled' <=> Len(items') = 0)
  /\ Len(runs') > Len(runs) =>
       /\ runs'[Len(runs')] = [items |-> items, i |-> 0, out |-> <<>>]
       /\ tool = "merge" => progress' = [current |-> 0, total |-> Len(items)]

\* C16: every run that is started eventually ends, and the steps that end and start
\* runs are as C16_RunStep says.
C16_RunsEndAndReleaseTheTrigger ==
  /\ [][C16_RunStep]_vars
  /\ (runs # <<>>) ~> (runs = <<>>)

\* C16 witness: a merge run over two items failed after its first item; the busy
\* flag is cleared and the queue still holds the two items, so a retry can start.
C16_Witness ==
  /\ tool = "merge"
  /\ mounted
  /\ runs = <<>>
  /\ ~isMerging
  /\ errorMsg = "PdfMerge.mergeFailed"
  /\ progress = [current |-> 1, total |-> 2]
  /\ Len(items) = 2
  /\ ~MergeButtonDisabled

----------------------------------------------------------------------------
(* Admission filtering *)

\* C17 (as claimed): the merge tool appends every file of the list whose type is
\* application/pdf or whose name ends in .pdf (in any case), in input order, also
\* when it rejects other files of the list, and then sets the invalid-type message;
\* the image tool appends every file of type image/jpeg, image/jpg or image/png in
\* input order, whatever the length of the queue, and when a non-empty list holds no
\* such file it leaves the queue as it was and sets the invalid-type message.
C17_FilterStepAsClaimed ==
  \A b \in CapBatches :
    /\ \A ts \in ClockReads(PdfMerge_clockCalls(b)) : PdfMerge_addFiles(b, ts) =>
         LET valid == RefAdmit(b, PdfAccepted, Len(b)) IN
         /\ RefAppended(items, items', valid)
         /\ Len(valid) < Len(b) => errorMsg' = "PdfMerge.invalidFileType"
    /\ \A ts \in ClockReads(JpgToPdf_clockCalls(b)) : JpgToPdf_addFiles(b, ts) =>
         LET valid == RefAdmit(b, ImgAccepted, Len(b)) IN
         /\ RefAppended(items, items', valid)
         /\ (Len(b) > 0 /\ valid = <<>>) =>
              items' = items /\ errorMsg' = "JpgToPdf.invalidFileType"

C17_AdmissionFiltersAsClaimed == [][C17_FilterStepAsClaimed]_vars

\* C17 (amended): when the merge queue has a free slot and the valid files of the
\* list (type application/pdf, or a name ending in .pdf in any case) fit into the
\* free slots, the merge tool appends every valid file in input order and sets the
\* invalid-type message when it rejected a file; the image tool appends every file
\* of type image/jpeg, image/jpg or image/png in input order, whatever the length of
\* the queue, and when a non-empty list holds no such file it leaves the queue as it
\* was and sets the invalid-type message.
C17_FilterStep ==
  \A b \in CapBatches :
    /\ \A ts \in ClockReads(PdfMerge_clockCalls(b)) : PdfMerge_addFiles(b, ts) =>
         LET valid == RefAdmit(b, PdfAccepted, Len(b)) IN
         (Len(valid) <= MAX_FILES - Len(items) /\ Len(items) < MAX_FILES) =>
           /\ RefAppended(items, items', valid)
           /\ Len(valid) < Len(b) => errorMsg' = "PdfMerge.invalidFileType"
    /\ \A ts \in ClockReads(JpgToPdf_clockCalls(b)) : JpgToPdf_addFiles(b, ts) =>
         LET valid == RefAdmit(b, ImgAccepted, Len(b)) IN
         /\ RefAppended(items, items', valid)
         /\ (Len(b) > 0 /\ valid = <<>>) =>
              items' = items /\ errorMsg' = "JpgToPdf.invalidFileType"

C17_AdmissionFilters == [][C17_FilterStep]_vars

\* C17 witness: the merge tool filled its last two slots from a list of three files:
\* it rejected the text file, admitted the file with a .PDF name and no type and the
\* file with the PDF type and another name, and set the invalid-type message.
C17_Witness ==
  /\ tool = "merge"
  /\ Renders
  /\ Len(items) = MAX_FILES
  /\ items[MAX_FILES - 1].file = PdfB
  /\ items[MAX_FILES].file = PdfC
  /\ errorMsg = "PdfMerge.invalidFileType"

----------------------------------------------------------------------------
(* Preview handles of the image tool *)

\* the preview handles of the items of a list
PreviewsOf(list) == {list[k].previewUrl : k \in 1..Len(list)}

\* C18 (as claimed): in the mounted image tool every queued item has a live preview
\* handle of its own; removeItem(id) revokes the preview handles of the items it
\* removes, once each, and no other preview handle; clearAll revokes the handles of
\* all queued items.
C18_PreviewStep ==
  tool = "jpg" /\ mounted /\ Renders =>
    /\ \A k \in 1..Len(items) :
         /\ urls[items[k].previewUrl].revoked = 0
         /\ \A j \in 1..Len(items) : j # k => items[j].previewUrl # items[k].previewUrl
    /\ \A id \in AnyIds :
         JpgToPdf_removeItem(id) =>
           \A h \in 1..Len(urls) :
             urls[h].type # "application/pdf" =>
             urls'[h].revoked =
               IF h \in PreviewsOf(items) \ PreviewsOf(items')
               THEN urls[h].revoked + 1 ELSE urls[h].revoked
    /\ JpgToPdf_clearAll =>
         \A h \in PreviewsOf(items) : urls'[h].revoked = 1

C18_EveryItemOwnsItsPreview == [][C18_PreviewStep]_vars

----------------------------------------------------------------------------
(* Item ids *)

\* C20 (as claimed): no two items of the queue have the same id.
C20_IdsUnique ==
  Renders => \A j, k \in 1..Len(items) : j # k => items[j].id # items[k].id

====
